---------------------------- MODULE Spec2Model ----------------------------
(***************************************************************************)
(* A model of the survey data pipeline of research-visualizer              *)
(* (src/survey.py): cleaning of the values and labels tables, one-hot      *)
(* encoding, the variable-description parser, and the Survey object with   *)
(* drop_rows, set_weights, get_column_value_counts and get_subset_survey.  *)
(*                                                                         *)
(* pandas objects are modelled by what the code relies on:                 *)
(*   - a DataFrame is a record [index, data, hasW, W]: the row labels, the *)
(*     rows of the data columns, and the "Weights" column when present;    *)
(*   - DataFrames live in a heap (frames) and a Survey holds references,   *)
(*     because drop(inplace=True), index assignment and column assignment  *)
(*     mutate the object a reference points to;                            *)
(*   - floats are exact rationals <<numerator, denominator>>;              *)
(*   - strings of a values column are tokens Str(t), ordered as t.         *)
(***************************************************************************)
EXTENDS Integers, Sequences, FiniteSets, TLC

VARIABLES
    raw_values,      \* the data_values DataFrame handed to Survey(...)
    raw_labels,      \* the data_labels DataFrame handed to Survey(...)
    data_variables,  \* the variable-description text (a sequence of lines)
    frames,          \* heap of DataFrame objects: frame id -> DataFrame
    surveys,         \* the Survey objects built so far, in order of creation
    failed,          \* an exception left a handler: the run is aborted
    last,            \* the last call made: its name, target and arguments
    nops,            \* number of calls made so far
    oh_column,       \* a values column handed to convert_to_numbers
    oh_result,       \* what convert_to_numbers made of oh_column
    p_result         \* what parse_variable_label_mapping returned

vars == <<raw_values, raw_labels, data_variables, frames, surveys, failed,
          last, nops, oh_column, oh_result, p_result>>

-----------------------------------------------------------------------------
(* Bounds of the model *)

\* rows of the raw tables
NumRows == 3
\* largest answer code of a raw values cell
MaxCode == 1
\* distinct string tokens of a free-text column
NumTokens == 3
\* longest column handed to convert_to_numbers on its own
OneHotLen == 3
\* calls made on Survey objects after the first construction
MaxOps == 2
\* Survey objects alive at once (the first one and its subsets)
MaxSurveys == 2
\* largest raw weight of a set_weights specification
MaxWeight == 3
\* lines of a variable-description text
MaxLines == 3

(* Program constants *)

\* Survey.default_empty_code
default_empty_code == 6101

\* Survey.default_empty_label
default_empty_label == "(Not available)"

-----------------------------------------------------------------------------
(* Cells *)

\* np.nan
NaN == [k |-> "nan", v |-> 0]
\* the string ' ' that PSPP writes for a missing cell
Sp == [k |-> "sp", v |-> 0]
\* an integer cell
Num(n) == [k |-> "num", v |-> n]
\* a string cell: the t-th string in lexicographic order
Str(t) == [k |-> "str", v |-> t]

\* a missing cell of a labels table (np.nan), and the string ' '
LabelNaN == "<nan>"
LabelSp == " "

\* Python 2 ordering of the cells of an object column: numbers before
\* strings, numbers by value, strings lexicographically
CellLess(a, b) ==
    \/ a.k = "num" /\ b.k = "str"
    \/ a.k = b.k /\ a.v < b.v

-----------------------------------------------------------------------------
(* Sequences *)

Range(s) == {s[i] : i \in DOMAIN s}

\* the subsequence of s at the positions that satisfy keep
RECURSIVE KeepPositions(_, _, _)
KeepPositions(s, keep, i) ==
    IF i > Len(s) THEN <<>>
    ELSE (IF i \in keep THEN <<s[i]>> ELSE <<>>) \o KeepPositions(s, keep, i + 1)

\* position of the first occurrence of x in s
FirstIndex(s, x) == CHOOSE i \in DOMAIN s : s[i] = x /\ \A j \in 1..(i - 1) : s[j] # x

\* the distinct elements of s in order of first appearance
RECURSIVE FirstAppearance(_)
FirstAppearance(s) ==
    IF s = <<>> THEN <<>>
    ELSE LET init == FirstAppearance(SubSeq(s, 1, Len(s) - 1))
             x == s[Len(s)]
         IN IF x \in Range(init) THEN init ELSE Append(init, x)

-----------------------------------------------------------------------------
(* Exact rationals <<n, d>> with d > 0, in lowest terms, for float values *)

RECURSIVE Gcd(_, _)
Gcd(a, b) == IF b = 0 THEN a ELSE Gcd(b, a % b)

Abs(a) == IF a < 0 THEN -a ELSE a

Rat(n, d) ==
    LET g == Gcd(Abs(n), d)
    IN IF n = 0 THEN <<0, 1>> ELSE <<n \div g, d \div g>>

RatOfInt(n) == <<n, 1>>
RatAdd(a, b) == Rat(a[1] * b[2] + b[1] * a[2], a[2] * b[2])
RatOne == <<1, 1>>
RatZero == <<0, 1>>

\* float -> int32 of astype: truncation toward zero (weights are not negative)
RatTrunc(a) == a[1] \div a[2]

\* Series.sum()
RECURSIVE RatSum(_)
RatSum(s) == IF s = <<>> THEN RatZero ELSE RatAdd(s[1], RatSum(Tail(s)))

RECURSIVE IntSum(_)
IntSum(s) == IF s = <<>> THEN 0 ELSE s[1] + IntSum(Tail(s))

-----------------------------------------------------------------------------
(* np.unique *)

\* np.unique(column) of a column of cells: the distinct cells, ascending
RECURSIVE SortedCells(_)
SortedCells(S) ==
    IF S = {} THEN <<>>
    ELSE LET m == CHOOSE x \in S : \A y \in S \ {x} : CellLess(x, y)
         IN <<m>> \o SortedCells(S \ {m})

UniqueCells(column) == SortedCells(Range(column))

\* np.unique(column) of a column of integers
RECURSIVE SortedInts(_)
SortedInts(S) ==
    IF S = {} THEN <<>>
    ELSE LET m == CHOOSE x \in S : \A y \in S : x <= y
         IN <<m>> \o SortedInts(S \ {m})

-----------------------------------------------------------------------------
(* One-hot encoding and numeric conversion: survey.py 53-86 *)

\* Series.replace(value, new): every cell equal to value becomes new
ReplaceCell(column, value, new) ==
    [i \in DOMAIN column |-> IF column[i] = value THEN new ELSE column[i]]

\* the loop of build_one_hot_column from the i-th unique value on
RECURSIVE OneHotLoop(_, _, _, _)
OneHotLoop(column, unique_values, i, empty_code) ==
    IF i > Len(unique_values) THEN column
    ELSE LET value == unique_values[i]
             next == IF value # Num(empty_code)
                     THEN ReplaceCell(column, value, Num(i - 1))
                     ELSE column
         IN OneHotLoop(next, unique_values, i + 1, empty_code)

\* a faulty encoder: indices follow first appearance among the non-empty values
OneHotByFirstAppearance(column, empty_code) ==
    LET order == FirstAppearance(SelectSeq(column, LAMBDA c : c # Num(empty_code)))
    IN [i \in DOMAIN column |->
          IF column[i] = Num(empty_code) THEN column[i]
          ELSE Num(FirstIndex(order, column[i]) - 1)]

build_one_hot_column(column, empty_code) ==
    OneHotLoop(column, UniqueCells(column), 1, empty_code)

\* Series.astype('int32') raises ValueError on a cell that is not a number
CanCastInt(column) == \A i \in DOMAIN column : column[i].k = "num"

\* one iteration of the loop of convert_to_numbers: a column of cells to a
\* column of integers
ConvertColumn(column, empty_code) ==
    LET cells == IF CanCastInt(column) THEN column
                 ELSE build_one_hot_column(column, empty_code)
    IN [i \in DOMAIN cells |-> cells[i].v]

-----------------------------------------------------------------------------
(* The variable-description parser: survey.py 102-137.  A line is a        *)
(* sequence of one-character strings; the text is the sequence of lines    *)
(* that data_variables.split("\n") yields.                                 *)

Digits == {"0", "1", "2", "3", "4", "5", "6", "7", "8", "9"}

\* width of the position field tested by line[-8:], and of line[0:8]
FieldWidth == 8

\* s[lo:hi] of Python for 0-based lo, hi (negative: from the end), clamped
PySlice(s, lo, hi) ==
    LET n == Len(s)
        a0 == IF lo < 0 THEN lo + n ELSE lo
        b0 == IF hi < 0 THEN hi + n ELSE hi
        a == IF a0 < 0 THEN 0 ELSE IF a0 > n THEN n ELSE a0
        b == IF b0 < 0 THEN 0 ELSE IF b0 > n THEN n ELSE b0
    IN IF a >= b THEN <<>> ELSE SubSeq(s, a + 1, b)

\* str.strip()
RECURSIVE LStrip(_)
LStrip(s) == IF s # <<>> /\ s[1] = " " THEN LStrip(Tail(s)) ELSE s

RECURSIVE RStrip(_)
RStrip(s) ==
    IF s # <<>> /\ s[Len(s)] = " " THEN RStrip(SubSeq(s, 1, Len(s) - 1)) ELSE s

PyStrip(s) == RStrip(LStrip(s))

\* str.isdigit(): not empty and every character a digit
IsDigit(s) == s # <<>> /\ \A i \in DOMAIN s : s[i] \in Digits

\* str.find(' '): 0-based position of the first space, -1 when there is none
FindSpace(s) ==
    IF \E i \in DOMAIN s : s[i] = " "
    THEN (CHOOSE i \in DOMAIN s : s[i] = " " /\ \A j \in 1..(i - 1) : s[j] # " ") - 1
    ELSE -1

WordVariable == <<"V", "a", "r", "i", "a", "b", "l", "e">>

\* line 125, on a stripped line: a header, a separator or a blank line
\* ("=" stands for the box-drawing character of the separator lines)
IsSkippedLine(line) ==
    \/ PySlice(line, 0, FieldWidth) = WordVariable
    \/ \E i \in DOMAIN line : line[i] = "="
    \/ line = <<>>

\* line 128, on a stripped line: the line ends in a position number
IsEntryLine(line) == IsDigit(PyStrip(PySlice(line, -FieldWidth, Len(line))))

\* the placeholders of line 122
PlaceholderCode == <<"f", "o", "o">>
PlaceholderDescription == <<"b", "a", "r">>

\* coding[code] = description
DictSet(d, key, value) ==
    [x \in (DOMAIN d) \cup {key} |-> IF x = key THEN value ELSE d[x]]

EmptyDict == [x \in {} |-> <<>>]

\* the loop of lines 123-136 from the i-th line on
RECURSIVE ParseLoop(_, _, _, _, _)
ParseLoop(lines, i, coding, code, description) ==
    IF i > Len(lines) THEN coding
    ELSE LET line == PyStrip(lines[i])
         IN IF IsSkippedLine(line)
            THEN ParseLoop(lines, i + 1, coding, code, description)
            ELSE IF IsEntryLine(line)
            THEN LET sp == FindSpace(line)
                     c == PySlice(line, 0, sp)
                     d == PyStrip(PySlice(line, sp, -FieldWidth))
                 IN ParseLoop(lines, i + 1, DictSet(coding, c, d), c, d)
            ELSE LET d == description \o <<" ">> \o line
                 IN ParseLoop(lines, i + 1, DictSet(coding, code, d), code, d)

\* the function never raises: every string operation it uses is total
parse_variable_label_mapping(data_variables_text) ==
    [raised |-> FALSE,
     coding |-> ParseLoop(data_variables_text, 1, EmptyDict, PlaceholderCode,
                          PlaceholderDescription)]

(* Lines the texts of the model are made of *)

LineHeader == <<"V", "a", "r", "i", "a", "b", "l", "e", " ", "L">>
LineSeparator == <<"=", "=", "=">>
LineBlank == <<" ", " ">>
LineS5 == <<" ", "S", "5", " ", "J", "o", "b", " ", " ", " ", " ", " ", " ", " ", " ", "7">>
LineS6 == <<"S", "6", " ", "N", "o", "w", " ", " ", " ", " ", " ", " ", " ", "1", "8">>
LineContinuation == <<" ", " ", "o", "n", "?">>
LineNumberOnly == <<" ", "7">>

SampleLines ==
    {LineHeader, LineSeparator, LineBlank, LineS5, LineS6, LineContinuation,
     LineNumberOnly}

-----------------------------------------------------------------------------
(* DataFrames.  A DataFrame is [index, data, hasW, W]: index is the        *)
(* sequence of row labels, data the sequence of rows (a row maps each data *)
(* column to its cell), hasW says whether the frame has a "Weights"        *)
(* column and W is that column.  Cells of a raw values table are NaN, Sp,  *)
(* Num(n) or Str(t); cells of a cleaned values table are integers; cells   *)
(* of a labels table are strings.                                          *)

\* the data columns, in the order of the tables
Columns == <<"Q1", "Q2">>
ColumnSet == Range(Columns)

Frame(index, data, hasW, W) == [index |-> index, data |-> data, hasW |-> hasW, W |-> W]

NRows(f) == Len(f.data)

\* the column of a frame as a sequence
ColumnOf(f, c) == [i \in DOMAIN f.data |-> f.data[i][c]]

\* the rows of a frame at the given positions (1-based), labels kept:
\* what boolean indexing, dropna and drop leave
FrameAt(f, keep) ==
    Frame(KeepPositions(f.index, keep, 1), KeepPositions(f.data, keep, 1),
          f.hasW, IF f.hasW THEN KeepPositions(f.W, keep, 1) ELSE <<>>)

\* DataFrame.replace(old, new) on the data columns
FrameReplace(f, old, new) ==
    [f EXCEPT !.data = [i \in DOMAIN f.data |->
                          [c \in ColumnSet |->
                             IF f.data[i][c] = old THEN new ELSE f.data[i][c]]]]

\* DataFrame.dropna(how='all'): a row goes when every cell of it is missing;
\* a "Weights" cell is never missing
FrameDropNaAll(f, nan) ==
    FrameAt(f, {i \in DOMAIN f.data : f.hasW \/ \E c \in ColumnSet : f.data[i][c] # nan})

\* convert_to_numbers: every column becomes int32, the "Weights" column of a
\* frame that has one included (the floats are truncated)
convert_to_numbers(f, empty_code) ==
    LET col == [c \in ColumnSet |-> ConvertColumn(ColumnOf(f, c), empty_code)]
    IN [f EXCEPT !.data = [i \in DOMAIN f.data |-> [c \in ColumnSet |-> col[c][i]]],
                 !.W = [i \in DOMAIN f.W |-> RatOfInt(RatTrunc(f.W[i]))]]

\* survey.py 38-51
process_values(f, empty_code) ==
    convert_to_numbers(
        FrameReplace(FrameDropNaAll(FrameReplace(f, Sp, NaN), NaN), NaN, Num(empty_code)),
        empty_code)

\* survey.py 88-100
process_labels(f, empty_label) ==
    FrameReplace(FrameDropNaAll(FrameReplace(f, LabelSp, LabelNaN), LabelNaN),
                 LabelNaN, empty_label)

\* a cleaned values frame read again as a raw table (its integers as numbers)
AsRawValues(f) ==
    [f EXCEPT !.data = [i \in DOMAIN f.data |-> [c \in ColumnSet |-> Num(f.data[i][c])]]]

\* DataFrame.drop(labels, axis=0): raises when a label is not in the index
DropRaises(f, labels) == ~(labels \subseteq Range(f.index))
FrameDrop(f, labels) == FrameAt(f, {i \in DOMAIN f.index : f.index[i] \notin labels})

\* frame.index = range(len(frame))
Reindex(f) == [f EXCEPT !.index = [i \in DOMAIN f.data |-> i - 1]]

\* frame['Weights'] = column: raises when the lengths differ
SetWeightsColumn(f, column) == [f EXCEPT !.hasW = TRUE, !.W = column]

-----------------------------------------------------------------------------
(* The Survey object.  A Survey is a record                                *)
(*   data_values, data_labels : ids of its two frames in the heap          *)
(*   variable_label_mapping, total_weight, num_rows, num_cols              *)
(*   value_label_mapping : data column -> (code -> label)                  *)
(*   weights_label_mapping : value_label_mapping['Weights']                *)
(*   parent, filter : the survey and the (column, value) rule it was cut   *)
(*                    from by get_subset_survey (parent 0: built directly) *)

WeightsName == <<"W", "e", "i", "g", "h", "t", "s">>

\* the zip of calculate_value_label_mapping for one column: raises
\* IndexError when there are fewer distinct labels than distinct values
ZipRaises(values, labels) == Len(FirstAppearance(labels)) < Len(FirstAppearance(values))

ZipMapping(values, labels) ==
    LET values_sorted == FirstAppearance(values)
        labels_sorted == FirstAppearance(labels)
    IN [v \in Range(values_sorted) |-> labels_sorted[FirstIndex(values_sorted, v)]]

\* Survey.__init__ on the tables dv, dl and the text: survey.py 28-36.
\* The result says whether the constructor raised, and holds the two
\* cleaned frames and the fields of the object.
SurveyInit(dv, dl, text) ==
    LET V0 == process_values(dv, default_empty_code)
        L0 == process_labels(dl, default_empty_label)
        parsed == parse_variable_label_mapping(text)
        ones == [i \in 1..NRows(V0) |-> RatOne]
        V == SetWeightsColumn(V0, ones)
        L == SetWeightsColumn(L0, ones)
        addRaises == NRows(L0) # NRows(V0)
        zipRaises == \/ \E c \in ColumnSet : ZipRaises(ColumnOf(V, c), ColumnOf(L, c))
                     \/ ZipRaises(V.W, L.W)
        assertRaises == NRows(dv) # NRows(dl)
    IN IF parsed.raised \/ addRaises \/ zipRaises \/ assertRaises
       THEN [raised |-> TRUE]
       ELSE [raised |-> FALSE,
             values |-> V,
             labels |-> L,
             variable_label_mapping |-> DictSet(parsed.coding, WeightsName, WeightsName),
             total_weight |-> RatSum(V.W),
             value_label_mapping |->
                 [c \in ColumnSet |-> ZipMapping(ColumnOf(V, c), ColumnOf(L, c))],
             weights_label_mapping |-> ZipMapping(V.W, L.W),
             num_rows |-> NRows(V),
             num_cols |-> Len(Columns) + 1]

\* a faulty allocation: the subset keeps the frame object of its parent
AllocShared(source, fresh) == source

\* where the frame made from the frame at id source is stored: boolean
\* indexing, replace and dropna return new objects, so a Survey never holds
\* a frame of the tables it was built from

AllocFrame(source, fresh) == fresh

HeapPut(h, id, f) == IF id \in DOMAIN h THEN [h EXCEPT ![id] = f] ELSE Append(h, f)

\* the Survey object of a constructor result r, its frames stored at vid, lid
SurveyObject(r, vid, lid, parent, filter) ==
    [data_values |-> vid,
     data_labels |-> lid,
     variable_label_mapping |-> r.variable_label_mapping,
     total_weight |-> r.total_weight,
     value_label_mapping |-> r.value_label_mapping,
     weights_label_mapping |-> r.weights_label_mapping,
     num_rows |-> r.num_rows,
     num_cols |-> r.num_cols,
     parent |-> parent,
     filter |-> filter]

-----------------------------------------------------------------------------
(* drop_rows: survey.py 139-164.  exclude_values maps some columns to the  *)
(* set of values to exclude.  The result is the heap the call leaves and   *)
(* whether it raised; the fields of the Survey object are not touched.     *)

\* the list row_indices of lines 153-158, as a set: positions 0..num_rows-1
RowIndices(V, exclude_values) ==
    {row \in 0..(NRows(V) - 1) :
        \E column_name \in DOMAIN exclude_values :
            V.data[row + 1][column_name] \in exclude_values[column_name]}

drop_rows(h, s, exclude_values) ==
    IF DOMAIN exclude_values = {} THEN [raised |-> FALSE, frames |-> h]
    ELSE LET V == h[s.data_values]
             row_indices == RowIndices(V, exclude_values)
         IN IF DropRaises(V, row_indices) THEN [raised |-> TRUE, frames |-> h]
            ELSE LET h1 == [h EXCEPT ![s.data_values] = FrameDrop(V, row_indices)]
                     L == h1[s.data_labels]
                 IN IF DropRaises(L, row_indices) THEN [raised |-> TRUE, frames |-> h1]
                    ELSE LET h2 == [h1 EXCEPT ![s.data_labels] = FrameDrop(L, row_indices)]
                             h3 == [h2 EXCEPT ![s.data_values] = Reindex(h2[s.data_values])]
                             h4 == [h3 EXCEPT ![s.data_labels] = Reindex(h3[s.data_labels])]
                         IN [raised |-> FALSE, frames |-> h4]

-----------------------------------------------------------------------------
(* set_weights: survey.py 184-208.  weights maps at most one column to a   *)
(* specification, a map from value to raw weight (the keys are the values  *)
(* as JSON strings; str(value) of line 202 is the lookup of the value).    *)

\* sum(weights[column_name].values())
RECURSIVE SumOver(_, _)
SumOver(spec, keys) ==
    IF keys = {} THEN 0
    ELSE LET k == CHOOSE x \in keys : TRUE
         IN spec[k] + SumOver(spec, keys \ {k})

\* the loop of lines 201-204 from the i-th unique value on: the value is
\* looked for in new_column as it is now, replaced cells included
RECURSIVE WeightsLoop(_, _, _, _, _)
WeightsLoop(new_column, unique_values, i, spec, total_weight) ==
    IF i > Len(unique_values) THEN new_column
    ELSE LET value == unique_values[i]
             new_value == Rat(Len(unique_values) * spec[value], total_weight)
         IN WeightsLoop(ReplaceCell(new_column, RatOfInt(value), new_value),
                        unique_values, i + 1, spec, total_weight)

set_weights(h, s, weights) ==
    IF DOMAIN weights = {}
    THEN [raised |-> FALSE, frames |-> h, total_weight |-> s.total_weight]
    ELSE LET column_name == CHOOSE c \in DOMAIN weights : TRUE
             spec == weights[column_name]
             V == h[s.data_values]
             column == ColumnOf(V, column_name)
             total_weight == SumOver(spec, DOMAIN spec)
             unique_values == SortedInts(Range(column))
         IN IF (\E v \in Range(column) : v \notin DOMAIN spec) \/ total_weight = 0
            THEN [raised |-> TRUE, frames |-> h, total_weight |-> s.total_weight]
            ELSE LET new_column ==
                         WeightsLoop([i \in DOMAIN column |-> RatOfInt(column[i])],
                                     unique_values, 1, spec, total_weight)
                     h1 == [h EXCEPT ![s.data_values] = SetWeightsColumn(V, new_column)]
                     L == h1[s.data_labels]
                 IN IF NRows(L) # Len(new_column)
                    THEN [raised |-> TRUE, frames |-> h1, total_weight |-> s.total_weight]
                    ELSE LET h2 == [h1 EXCEPT ![s.data_labels] = SetWeightsColumn(L, new_column)]
                         IN [raised |-> FALSE, frames |-> h2,
                             total_weight |-> RatSum(h2[s.data_values].W)]

-----------------------------------------------------------------------------
(* get_column_value_counts: survey.py 230-252 *)

RatLess(a, b) == a[1] * b[2] < b[1] * a[2]
IntLess(a, b) == a < b

\* int(round(x)) of Python 2 for x >= 0: halves round away from zero
RoundRat(a) == (2 * a[1] + a[2]) \div (2 * a[2])

\* list.sort() of the (value, count) tuples: the values are distinct, floats
\* in the "Weights" column and integers elsewhere
SortPairs(keys, count, floats) ==
    LET Less(a, b) == IF floats THEN RatLess(a, b) ELSE IntLess(a, b)
    IN [i \in 1..Cardinality(keys) |->
          LET m == CHOOSE x \in keys : Cardinality({y \in keys : Less(y, x)}) = i - 1
          IN <<m, count[m]>>]

ValueCounts(column, keys, W, use_weights, floats) ==
    LET value_vector(value) == {i \in DOMAIN column : column[i] = value}
        count == [value \in keys |->
                    IF use_weights
                    THEN RoundRat(RatSum(KeepPositions(W, value_vector(value), 1)))
                    ELSE Cardinality(value_vector(value))]
    IN SortPairs(keys, count, floats)

get_column_value_counts(h, s, column_name, use_weights) ==
    LET V == h[s.data_values]
    IN IF column_name = "Weights"
       THEN ValueCounts(V.W, DOMAIN s.weights_label_mapping, V.W, use_weights, TRUE)
       ELSE ValueCounts(ColumnOf(V, column_name), DOMAIN s.value_label_mapping[column_name],
                        V.W, use_weights, FALSE)

-----------------------------------------------------------------------------
(* get_subset_survey: survey.py 254-267.  filter is the sequence of        *)
(* (variable, value) pairs that filter.iteritems() yields.                 *)

\* frame[rule] for the boolean Series rule made from the values frame V: the
\* Series is aligned to the frame's index, and the call raises when a label
\* of the frame is missing from the Series
MaskRaises(f, V) == f.index # V.index /\ ~(Range(f.index) \subseteq Range(V.index))
Mask(f, V, rule) ==
    IF f.index = V.index THEN FrameAt(f, rule)
    ELSE FrameAt(f, {i \in DOMAIN f.index : FirstIndex(V.index, f.index[i]) \in rule})

get_subset_survey(h, s, filter, text, self) ==
    IF filter = <<>> THEN [raised |-> TRUE]
    ELSE LET variable == filter[Len(filter)][1]
             value == filter[Len(filter)][2]
             V == h[s.data_values]
             L == h[s.data_labels]
             rule == {i \in DOMAIN V.data : V.data[i][variable] = value}
         IN IF MaskRaises(L, V) THEN [raised |-> TRUE]
            ELSE LET r == SurveyInit(AsRawValues(Mask(V, V, rule)), Mask(L, V, rule), text)
                     vid == AllocFrame(s.data_values, Len(h) + 1)
                     lid == AllocFrame(s.data_labels, Len(h) + 2)
                 IN IF r.raised THEN [raised |-> TRUE]
                    ELSE [raised |-> FALSE,
                          frames |-> HeapPut(HeapPut(h, vid, r.values), lid, r.labels),
                          survey |-> SurveyObject(r, vid, lid, self, filter[Len(filter)])]

-----------------------------------------------------------------------------
(* Inputs *)

\* the display labels of the answer codes 0, 1, 2, ... of column Q1, and
\* the texts of the free-text column Q2 (its label is the text itself)
CodeLabels == <<"no", "yes", "maybe", "often", "never">>
TextLabels == <<"alpha", "beta", "gamma", "delta", "omega">>

\* Q1 holds answer codes, Q2 free text; a missing cell is exported as ' '
RawCells(c) ==
    IF c = "Q1" THEN {Sp} \cup {Num(n) : n \in 0..MaxCode}
    ELSE {Sp} \cup {Str(t) : t \in 1..MaxCode}

\* the cell of the labels table that goes with a cell of the values table
LabelOf(cell) ==
    CASE cell.k = "num" -> CodeLabels[cell.v + 1]
      [] cell.k = "str" -> TextLabels[cell.v]
      [] cell.k = "sp" -> LabelSp
      [] OTHER -> LabelNaN

RawRows == {row \in [ColumnSet -> UNION {RawCells(c) : c \in ColumnSet}] :
               \A c \in ColumnSet : row[c] \in RawCells(c)}

RawFrame(rows) == Frame([i \in DOMAIN rows |-> i - 1], rows, FALSE, <<>>)

AlignedLabels(rows) == [i \in DOMAIN rows |-> [c \in ColumnSet |-> LabelOf(rows[i][c])]]

\* row r of a table blanked: every cell missing
BlankRows(rows, blank, nan) ==
    [i \in DOMAIN rows |-> IF i \in blank THEN [c \in ColumnSet |-> nan] ELSE rows[i]]

\* the text handed to every Survey of the main specification
SampleText == <<LineHeader, LineSeparator, LineS5, LineContinuation>>

\* arguments of drop_rows: no column, or some columns with one code to
\* exclude each
ExcludeSets == {{v} : v \in 0..MaxCode}
ExcludeArgs == UNION {[S -> ExcludeSets] : S \in SUBSET ColumnSet}

\* arguments of set_weights: no column, or one column with a raw weight for
\* every code (the empty code carries weight 1)
WeightKeys == (0..MaxCode) \cup {default_empty_code}
WeightSpecs == {spec \in [WeightKeys -> 1..MaxWeight] : spec[default_empty_code] = 1}
WeightArgs == UNION {[S -> WeightSpecs] : S \in {{}} \cup {{c} : c \in ColumnSet}}

\* arguments of get_subset_survey: one or two (variable, value) pairs in the
\* order of iteration, no variable twice
FilterPairs == ColumnSet \X ((0..MaxCode) \cup {default_empty_code})
FilterArgs ==
    {<<p>> : p \in FilterPairs}
    \cup {<<pq[1], pq[2]>> : pq \in {x \in FilterPairs \X FilterPairs : x[1][1] # x[2][1]}}

NotCalled == [done |-> FALSE]

-----------------------------------------------------------------------------
(* The pipeline: one Survey is built from the raw tables, then drop_rows,  *)
(* set_weights and get_subset_survey are called on the Surveys that exist. *)
(* An exception aborts the run (failed), with the part of the handler that *)
(* ran before it kept.                                                     *)

IdleAside == /\ oh_column = <<>>
             /\ oh_result = NotCalled
             /\ p_result = NotCalled

InitPipeline ==
    /\ data_variables = SampleText
    /\ frames = <<>>
    /\ surveys = <<>>
    /\ failed = FALSE
    /\ last = [op |-> "none", target |-> 0, arg |-> <<>>]
    /\ nops = 0
    /\ IdleAside

\* the two tables come from the same rows
Init ==
    /\ \E rows \in [1..NumRows -> RawRows] :
          /\ raw_values = RawFrame(rows)
          /\ raw_labels = RawFrame(AlignedLabels(rows))
    /\ InitPipeline

\* the two tables come from the same rows, but the export left one row of
\* the values table and one row of the labels table blank
InitBlank ==
    /\ \E rows \in [1..NumRows -> RawRows], bv \in 1..NumRows, bl \in 1..NumRows :
          /\ raw_values = RawFrame(BlankRows(rows, {bv}, NaN))
          /\ raw_labels = RawFrame(BlankRows(AlignedLabels(rows), {bl}, LabelNaN))
    /\ InitPipeline

Inputs == <<raw_values, raw_labels, data_variables>>
Aside == <<oh_column, oh_result, p_result>>

\* survey = Survey(data_values, data_labels, data_variables)
Construct ==
    /\ surveys = <<>>
    /\ ~failed
    /\ LET r == SurveyInit(raw_values, raw_labels, data_variables)
       IN IF r.raised
          THEN failed' = TRUE /\ UNCHANGED <<frames, surveys>>
          ELSE /\ frames' = <<r.values, r.labels>>
               /\ surveys' = <<SurveyObject(r, 1, 2, 0, <<>>)>>
               /\ failed' = FALSE
    /\ last' = [op |-> "Survey", target |-> 1, arg |-> <<>>]
    /\ UNCHANGED <<nops, Inputs, Aside>>

CanCall(i) == i \in DOMAIN surveys /\ ~failed /\ nops < MaxOps

\* surveys[i].drop_rows(exclude_values)
DropRows(i, exclude_values) ==
    /\ CanCall(i)
    /\ LET r == drop_rows(frames, surveys[i], exclude_values)
       IN frames' = r.frames /\ failed' = r.raised
    /\ last' = [op |-> "drop_rows", target |-> i, arg |-> exclude_values]
    /\ nops' = nops + 1
    /\ UNCHANGED <<surveys, Inputs, Aside>>

\* surveys[i].set_weights(weights)
SetWeights(i, weights) ==
    /\ CanCall(i)
    /\ LET r == set_weights(frames, surveys[i], weights)
       IN /\ frames' = r.frames
          /\ failed' = r.raised
          /\ surveys' = [surveys EXCEPT ![i].total_weight = r.total_weight]
    /\ last' = [op |-> "set_weights", target |-> i, arg |-> weights]
    /\ nops' = nops + 1
    /\ UNCHANGED <<Inputs, Aside>>

\* surveys[i].get_subset_survey(filter)
Subset(i, filter) ==
    /\ CanCall(i)
    /\ Len(surveys) < MaxSurveys
    /\ LET r == get_subset_survey(frames, surveys[i], filter, data_variables, i)
       IN IF r.raised
          THEN failed' = TRUE /\ UNCHANGED <<frames, surveys>>
          ELSE /\ frames' = r.frames
               /\ surveys' = Append(surveys, r.survey)
               /\ failed' = FALSE
    /\ last' = [op |-> "get_subset_survey", target |-> i, arg |-> filter]
    /\ nops' = nops + 1
    /\ UNCHANGED <<Inputs, Aside>>

Next ==
    \/ Construct
    \/ \E i \in 1..MaxSurveys, exclude_values \in ExcludeArgs : DropRows(i, exclude_values)
    \/ \E i \in 1..MaxSurveys, weights \in WeightArgs : SetWeights(i, weights)
    \/ \E i \in 1..MaxSurveys, filter \in FilterArgs : Subset(i, filter)

Spec == Init /\ [][Next]_vars

SpecBlank == InitBlank /\ [][Next]_vars

-----------------------------------------------------------------------------
(* convert_to_numbers on one column of a values table whose missing cells  *)
(* already hold the empty code (survey.py 49-50)                           *)

IdlePipeline ==
    /\ raw_values = RawFrame(<<>>)
    /\ raw_labels = RawFrame(<<>>)
    /\ frames = <<>>
    /\ surveys = <<>>
    /\ failed = FALSE
    /\ last = [op |-> "none", target |-> 0, arg |-> <<>>]
    /\ nops = 0

Pipeline == <<raw_values, raw_labels, frames, surveys, failed, last, nops>>

OneHotCells == {Num(default_empty_code)} \cup {Str(t) : t \in 1..NumTokens}

\* the columns that astype cannot coerce: some cell is a string
InitOneHot ==
    /\ oh_column \in {col \in UNION {[1..n -> OneHotCells] : n \in 1..OneHotLen} :
                         ~CanCastInt(col)}
    /\ oh_result = NotCalled
    /\ p_result = NotCalled
    /\ data_variables = <<>>
    /\ IdlePipeline

ConvertCall ==
    /\ ~oh_result.done
    /\ oh_result' = [done |-> TRUE,
                     column |-> ConvertColumn(oh_column, default_empty_code)]
    /\ UNCHANGED <<Pipeline, data_variables, oh_column, p_result>>

NextOneHot == ConvertCall

SpecOneHot == InitOneHot /\ [][NextOneHot]_vars

(* parse_variable_label_mapping on a text of up to MaxLines lines *)

InitParse ==
    /\ data_variables \in UNION {[1..n -> SampleLines] : n \in 1..MaxLines}
    /\ p_result = NotCalled
    /\ oh_column = <<>>
    /\ oh_result = NotCalled
    /\ IdlePipeline

ParseCall ==
    /\ ~p_result.done
    /\ LET r == parse_variable_label_mapping(data_variables)
       IN p_result' = [done |-> TRUE, raised |-> r.raised, coding |-> r.coding]
    /\ UNCHANGED <<Pipeline, data_variables, oh_column, oh_result>>

NextParse == ParseCall

SpecParse == InitParse /\ [][NextParse]_vars

-----------------------------------------------------------------------------
(* Properties *)

ValuesOf(i) == frames[surveys[i].data_values]
LabelsOf(i) == frames[surveys[i].data_labels]

\* everything a Survey holds: its fields and its two tables
View(h, ss, i) ==
    [fields |-> ss[i], values |-> h[ss[i].data_values], labels |-> h[ss[i].data_labels]]

Dense(f) == f.index = [i \in DOMAIN f.data |-> i - 1]

\* C1: in every state of a run that has not failed, the total_weight of
\* every Survey is the sum of the Weights column of its values table
C1_TotalWeightIsSum ==
    ~failed => \A i \in DOMAIN surveys :
                  surveys[i].total_weight = RatSum(ValuesOf(i).W)

\* C2: for raw tables with the same rows and columns, the values table and
\* the labels table of every Survey have the same number of rows, the same
\* row labels and the same columns
C2_TablesAligned ==
    ~failed => \A i \in DOMAIN surveys :
                  /\ NRows(ValuesOf(i)) = NRows(LabelsOf(i))
                  /\ Range(ValuesOf(i).index) = Range(LabelsOf(i).index)
                  /\ ValuesOf(i).hasW = LabelsOf(i).hasW

\* the rows position by position that no listed column excludes
Kept(V, exclude_values) ==
    {p \in DOMAIN V.data :
        \A c \in DOMAIN exclude_values : V.data[p][c] \notin exclude_values[c]}

\* C3: a drop_rows call with a non-empty mapping succeeds, removes from
\* both tables exactly the rows that have an excluded value in some listed
\* column, keeps the others in order, and leaves the row labels 0..n-1
C3_DropRowsRemovesMatches ==
    [][(last'.op = "drop_rows" /\ DOMAIN last'.arg # {}) =>
          LET i == last'.target
              V == frames[surveys[i].data_values]
              L == frames[surveys[i].data_labels]
              V2 == frames'[surveys[i].data_values]
              L2 == frames'[surveys[i].data_labels]
              keep == Kept(V, last'.arg)
          IN /\ ~failed'
             /\ V2.data = KeepPositions(V.data, keep, 1)
             /\ L2.data = KeepPositions(L.data, keep, 1)
             /\ Dense(V2) /\ Dense(L2)]_vars

\* C4: a drop_rows call that repeats the call before it, on the same Survey
\* with the same mapping, succeeds and leaves both tables as they were
C4_DropRowsIdempotent ==
    [][(/\ last.op = "drop_rows" /\ last'.op = "drop_rows"
        /\ last'.target = last.target /\ last'.arg = last.arg) =>
          /\ ~failed'
          /\ frames'[surveys[last.target].data_values] = frames[surveys[last.target].data_values]
          /\ frames'[surveys[last.target].data_labels] = frames[surveys[last.target].data_labels]]_vars

\* C5: get_subset_survey with a one-column filter (c, v) returns a Survey
\* whose tables hold exactly the rows of the parent with value v in column
\* c and leaves every existing Survey as it was; drop_rows and set_weights
\* change nothing of any Survey but the one they are called on
C5_SubsetIsIndependent ==
    [][/\ (last'.op = "get_subset_survey" /\ ~failed' /\ Len(last'.arg) = 1) =>
            LET p == last'.target
                k == Len(surveys')
                c == last'.arg[1][1]
                v == last'.arg[1][2]
                rule == {r \in DOMAIN ValuesOf(p).data : ValuesOf(p).data[r][c] = v}
            IN /\ k = Len(surveys) + 1
               /\ frames'[surveys'[k].data_values].data = KeepPositions(ValuesOf(p).data, rule, 1)
               /\ frames'[surveys'[k].data_labels].data = KeepPositions(LabelsOf(p).data, rule, 1)
               /\ \A i \in DOMAIN surveys : View(frames', surveys', i) = View(frames, surveys, i)
       /\ (last'.op \in {"drop_rows", "set_weights"}) =>
            \A i \in DOMAIN surveys \ {last'.target} :
                View(frames', surveys', i) = View(frames, surveys, i)]_vars

\* C5 witness: a subset of two or more rows was cut from a larger parent,
\* and a drop_rows call on the subset has then removed a row from it
C5_Witness ==
    /\ ~failed
    /\ Len(surveys) = 2
    /\ last.op = "drop_rows" /\ last.target = 2
    /\ surveys[2].num_rows >= 2
    /\ NRows(ValuesOf(2)) < surveys[2].num_rows
    /\ NRows(ValuesOf(1)) > surveys[2].num_rows

\* C6: for every Survey and every column of its values table, the counts of
\* get_column_value_counts without weights add up to the number of rows,
\* and the list is ascending by value
C6_CountsSumToRows ==
    ~failed => \A i \in DOMAIN surveys : \A c \in ColumnSet \cup {"Weights"} :
        LET counts == get_column_value_counts(frames, surveys[i], c, FALSE)
        IN /\ IntSum([j \in DOMAIN counts |-> counts[j][2]]) = NRows(ValuesOf(i))
           /\ \A j \in DOMAIN counts : \A k \in DOMAIN counts :
                 j < k => IF c = "Weights" THEN RatLess(counts[j][1], counts[k][1])
                          ELSE counts[j][1] < counts[k][1]

\* C7: for row-aligned raw tables, value_label_mapping has for every column
\* an entry for the value of every row, and the entry is the cell of the
\* labels table at the same place
C7_MappingMatchesLabels ==
    ~failed => \A i \in DOMAIN surveys : \A r \in DOMAIN ValuesOf(i).data :
        /\ \A c \in ColumnSet :
              /\ ValuesOf(i).data[r][c] \in DOMAIN surveys[i].value_label_mapping[c]
              /\ surveys[i].value_label_mapping[c][ValuesOf(i).data[r][c]] = LabelsOf(i).data[r][c]
        /\ ValuesOf(i).W[r] \in DOMAIN surveys[i].weights_label_mapping
        /\ surveys[i].weights_label_mapping[ValuesOf(i).W[r]] = LabelsOf(i).W[r]

\* C8: after set_weights with a specification for column c, the weight of
\* every row is (number of distinct values of c) * spec[value of the row in
\* c] / (sum of the raw weights of the specification)
C8_WeightsFollowSpec ==
    [][(last'.op = "set_weights" /\ DOMAIN last'.arg # {}) =>
          LET i == last'.target
              c == CHOOSE x \in DOMAIN last'.arg : TRUE
              spec == last'.arg[c]
              V == frames[surveys[i].data_values]
              n == Cardinality(Range(ColumnOf(V, c)))
              W2 == frames'[surveys[i].data_values].W
          IN /\ ~failed'
             /\ Len(W2) = NRows(V)
             /\ \A r \in DOMAIN V.data :
                   W2[r] = Rat(n * spec[V.data[r][c]], SumOver(spec, DOMAIN spec))]_vars

\* the first line that is no header, separator or blank line is not a
\* question entry: a continuation comes before any code
ContinuationBeforeEntry(text) ==
    \E i \in DOMAIN text :
        /\ ~IsSkippedLine(PyStrip(text[i]))
        /\ ~IsEntryLine(PyStrip(text[i]))
        /\ \A j \in 1..(i - 1) : IsSkippedLine(PyStrip(text[j]))

\* C9: parsing a text with a continuation line before any question entry
\* raises, and no entry is ever stored under the placeholder code
C9_ContinuationFirstRaises ==
    (p_result.done /\ ContinuationBeforeEntry(data_variables)) =>
        /\ p_result.raised
        /\ PlaceholderCode \notin DOMAIN p_result.coding

IsEmptyCell(cell) == cell = Num(default_empty_code)

\* the one-hot result keeps empty cells and tells the other values apart
OneHotSeparates(column, result) ==
    /\ Len(result) = Len(column)
    /\ \A p \in DOMAIN column :
          IsEmptyCell(column[p]) => result[p] = default_empty_code
    /\ \A p \in DOMAIN column : \A q \in DOMAIN column :
          (~IsEmptyCell(column[p]) /\ ~IsEmptyCell(column[q])) =>
              (result[p] = result[q] <=> column[p] = column[q])

=============================================================================
